---------------------------- MODULE Spec2Model ----------------------------
(***************************************************************************)
(* A model of the crawl-and-extract pipeline of office_scraper.py and      *)
(* simple_scraper.py.                                                      *)
(*                                                                         *)
(* A text is a sequence of one-character strings.  The empty string ""     *)
(* is never a character of a text: it marks a deleted position while a     *)
(* substitution is being computed.                                         *)
(***************************************************************************)
EXTENDS Integers, Sequences, FiniteSets, TLC

VARIABLES
    \* the orchestrator (main) and its tasks (process_url), one per seed URL
    mainpc,         \* "start" -> "gather" -> "done" | "aborted"
    ready,          \* the event loop's queue of tasks not yet started
    current,        \* the task the event loop is running, 0 for none
    pc,             \* per task: "pending", "fetching", "loop", "downloading",
                    \*           "done", "raised"
    page_text,      \* per task: page_text of process_url
    downloadables,  \* per task: downloadables of process_url
    queue,          \* per task: the downloadables the for loop has yet to visit
    document_texts, \* per task: document_texts of process_url
    results,        \* per position: what gather collects from the task
    returned,       \* what main returns
    output_file,    \* what save_json wrote
    \* the world outside, and what was observed of it
    gets,           \* per task: the URLs of the HTTP GETs it issued, in order
    fetch_failed,   \* per task: the page fetch of its seed failed
    tmpdir,         \* the temporary files on disk (their suffixes)
    last_extract,   \* the last extractor call: did it fail, what it returned
    \* the normalizer on its own
    cl_pc,          \* "off", or "in" -> "once" -> "twice"
    cl_in,          \* the raw text handed to clean_text
    cl_out,         \* clean_text(cl_in)
    cl_out2,        \* clean_text(cl_out)
    \* the URL resolver on its own
    u_pc,           \* "off", or "in" -> "done"
    u_base,         \* base_url
    u_cand,         \* url
    u_res           \* the outcome of normalize_url(base_url, url)

pipeVars  == <<mainpc, ready, current, pc, page_text, downloadables, queue,
               document_texts, results, returned, output_file, gets,
               fetch_failed, tmpdir, last_extract>>
cleanVars == <<cl_pc, cl_in, cl_out, cl_out2>>
urlVars   == <<u_pc, u_base, u_cand, u_res>>
vars      == <<pipeVars, cleanVars, urlVars>>

---------------------------------------------------------------------------
(* Characters and the regular expressions of clean_text.                   *)

\* \s of Python's re on str: the whitespace characters the model uses.
IsSpace(c) == c \in {" ", "\n", "\t"}

\* \S{50,}: the least length of a "very long word".
LongWord == 50

\* cleaned_text[:10000]
ContentLimit == 10000

RECURSIVE RunEnd(_, _)
\* Last position of the maximal run of non-whitespace that holds position i.
RunEnd(s, i) == IF i < Len(s) /\ ~IsSpace(s[i + 1]) THEN RunEnd(s, i + 1) ELSE i

RECURSIVE SpaceEnd(_, _)
\* Last position of the maximal run of whitespace that holds position i.
SpaceEnd(s, i) == IF i < Len(s) /\ IsSpace(s[i + 1]) THEN SpaceEnd(s, i + 1) ELSE i

RECURSIVE ClassStart(_, _)
\* First position of the maximal run of characters of the class (whitespace
\* or not) of s[i] that holds position i.
ClassStart(s, i) ==
    IF i > 1 /\ IsSpace(s[i - 1]) = IsSpace(s[i]) THEN ClassStart(s, i - 1) ELSE i

\* s has the literal lit at position i.
HasAt(s, i, lit) ==
    /\ i + Len(lit) - 1 <= Len(s)
    /\ \A k \in 1..Len(lit) : s[i + k - 1] = lit[k]

LitHttp  == <<"h", "t", "t", "p">>
LitHttps == <<"h", "t", "t", "p", "s">>
LitSep   == <<":", "/", "/">>
LitNone  == <<"N", "o", "n", "e">>

\* r'https?://\S+' at position i: the end of the (greedy) match, 0 for none.
MatchUrl(s, i) ==
    LET after == IF HasAt(s, i, LitHttps \o LitSep) THEN i + 8
                 ELSE IF HasAt(s, i, LitHttp \o LitSep) THEN i + 7
                 ELSE 0
    IN  IF after # 0 /\ after <= Len(s) /\ ~IsSpace(s[after])
        THEN RunEnd(s, after) ELSE 0

\* r'\S+@\S+\.\S+' at position i: every \S+ is greedy, so a match runs to the
\* end of the run of non-whitespace; it exists iff an "@" after i is followed,
\* at least one character later, by a "." that is not the run's last character.
MatchEmail(s, i) ==
    IF IsSpace(s[i]) THEN 0
    ELSE LET e == RunEnd(s, i)
         IN  IF \E p \in (i + 1)..(e - 3) :
                    s[p] = "@" /\ \E q \in (p + 2)..(e - 1) : s[q] = "."
             THEN e ELSE 0

\* r'None'
MatchNone(s, i) == IF HasAt(s, i, LitNone) THEN i + 3 ELSE 0

\* r'\s+'
MatchSpace(s, i) == IF IsSpace(s[i]) THEN SpaceEnd(s, i) ELSE 0

\* r'\S{50,}'
MatchLong(s, i) ==
    IF IsSpace(s[i]) THEN 0
    ELSE LET e == RunEnd(s, i) IN IF e - i + 1 >= LongWord THEN e ELSE 0

\* The end of pattern pat's match at position i of s, 0 when there is none.
MatchEnd(pat, s, i) ==
    CASE pat = "url"   -> MatchUrl(s, i)
      [] pat = "email" -> MatchEmail(s, i)
      [] pat = "none"  -> MatchNone(s, i)
      [] pat = "space" -> MatchSpace(s, i)
      [] pat = "long"  -> MatchLong(s, i)

\* re.sub(pat, repl, s), repl being "" (delete) or one character.  re.sub
\* replaces the leftmost non-overlapping matches.  For these five patterns a
\* match that starts inside another match ends no later than it (four of
\* them run to the end of the run of characters, and "None" does not overlap
\* itself), so the replaced positions are exactly those some match covers,
\* and a match is taken iff no earlier match covers its start.  No match
\* holds both whitespace and non-whitespace, so a match that covers position
\* i starts within the run of i's class.
ReSub(pat, repl, s) ==
    LET end    == [i \in 1..Len(s) |-> MatchEnd(pat, s, i)] \o <<>>
        marked == [i \in 1..Len(s) |->
                     IF \E k \in ClassStart(s, i)..(i - 1) : end[k] >= i THEN ""
                     ELSE IF end[i] # 0 THEN repl
                     ELSE s[i]]
    IN  SelectSeq(marked, LAMBDA c : c # "")

\* str.strip()
Strip(s) ==
    IF \A i \in 1..Len(s) : IsSpace(s[i]) THEN <<>>
    ELSE LET first == CHOOSE i \in 1..Len(s) :
                          ~IsSpace(s[i]) /\ \A j \in 1..(i - 1) : IsSpace(s[j])
             last  == CHOOSE i \in 1..Len(s) :
                          ~IsSpace(s[i]) /\ \A j \in (i + 1)..Len(s) : IsSpace(s[j])
         IN  SubSeq(s, first, last)

\* clean_text: the five substitutions in the code's order, then strip().
clean_text(text) ==
    LET t1 == ReSub("url", "", text)
        t2 == ReSub("email", "", t1)
        t3 == ReSub("none", "", t2)
        t4 == ReSub("space", " ", t3)
        t5 == ReSub("long", "", t4)
    IN  Strip(t5)

\* Some position of s starts a match of pat.
Contains(pat, s) == \E i \in 1..Len(s) : MatchEnd(pat, s, i) # 0

---------------------------------------------------------------------------
(* The URL resolver.  URLs are texts; the model's URLs hold no "?", "#" or *)
(* ";", so a parsed URL is its scheme, network location and path.  A       *)
(* function that can raise returns an outcome: [raised, val].              *)

Ok(v)  == [raised |-> FALSE, val |-> v]
Raised == [raised |-> TRUE, val |-> <<>>]

UpperChars == <<"A", "B", "C", "D", "E", "F", "G", "H", "I", "J", "K", "L", "M",
                "N", "O", "P", "Q", "R", "S", "T", "U", "V", "W", "X", "Y", "Z">>
LowerChars == <<"a", "b", "c", "d", "e", "f", "g", "h", "i", "j", "k", "l", "m",
                "n", "o", "p", "q", "r", "s", "t", "u", "v", "w", "x", "y", "z">>
Digits     == <<"0", "1", "2", "3", "4", "5", "6", "7", "8", "9">>

InSeq(c, cs) == \E i \in 1..Len(cs) : cs[i] = c

LowerChar(c) ==
    IF InSeq(c, UpperChars)
    THEN LowerChars[CHOOSE i \in 1..Len(UpperChars) : UpperChars[i] = c]
    ELSE c

\* str.lower()
Lower(s) == [i \in 1..Len(s) |-> LowerChar(s[i])]

\* str.endswith(suffix)
EndsWith(s, suffix) ==
    /\ Len(suffix) <= Len(s)
    /\ SubSeq(s, Len(s) - Len(suffix) + 1, Len(s)) = suffix

IsAlpha(c) == InSeq(c, UpperChars) \/ InSeq(c, LowerChars)

\* urllib.parse.scheme_chars
IsSchemeChar(c) == IsAlpha(c) \/ InSeq(c, Digits) \/ c \in {"+", "-", "."}

\* str.find(c): the first position of c in s, 0 when s has none.
Find(s, c) ==
    IF \E i \in 1..Len(s) : s[i] = c
    THEN CHOOSE i \in 1..Len(s) : s[i] = c /\ \A j \in 1..(i - 1) : s[j] # c
    ELSE 0

\* s[i:] for the 1-based position i.
From(s, i) == SubSeq(s, i, Len(s))

\* What urlparse returns.
Parsed(scheme, netloc, path) == [scheme |-> scheme, netloc |-> netloc, path |-> path]

\* _splitnetloc: after, what follows a leading "//", is cut before its first
\* "/" (at delim, 0 for none); an unbalanced "[" or "]" in the network
\* location raises ValueError.
SplitNetloc(scheme, after, delim) ==
    IF delim = 0
    THEN (IF InSeq("[", after) # InSeq("]", after) THEN Raised
          ELSE Ok(Parsed(scheme, after, <<>>)))
    ELSE (IF InSeq("[", SubSeq(after, 1, delim - 1))
             # InSeq("]", SubSeq(after, 1, delim - 1)) THEN Raised
          ELSE Ok(Parsed(scheme, SubSeq(after, 1, delim - 1), From(after, delim))))

\* urlsplit once the scheme is cut off: a network location follows a leading
\* "//".
ParseRest(scheme, rest) ==
    IF Len(rest) >= 2 /\ rest[1] = "/" /\ rest[2] = "/"
    THEN SplitNetloc(scheme, From(rest, 3), Find(From(rest, 3), "/"))
    ELSE Ok(Parsed(scheme, <<>>, rest))

\* urlsplit, i being url.find(':'): what precedes the first ":" is the scheme
\* (lowercased) when it is a letter followed by scheme characters.
ParseAt(url, i) ==
    IF i > 1 /\ IsAlpha(url[1]) /\ \A k \in 1..(i - 1) : IsSchemeChar(url[k])
    THEN ParseRest(Lower(SubSeq(url, 1, i - 1)) \o <<>>, From(url, i + 1))
    ELSE ParseRest(<<>>, url)

\* urlparse(url)
urlparse(url) == ParseAt(url, Find(url, ":"))

\* is_valid_url: scheme and network location both present; the bare except
\* turns a parse error into False.
\* is_valid_url with the network location left unchecked.
is_valid_url_scheme_only(url) ==
    ~urlparse(url).raised /\ urlparse(url).val.scheme # <<>>

ValidParse(r) == ~r.raised /\ r.val.scheme # <<>> /\ r.val.netloc # <<>>

is_valid_url(url) == ValidParse(urlparse(url))

SchHttp  == <<"h", "t", "t", "p">>
SchHttps == <<"h", "t", "t", "p", "s">>
SchFtp   == <<"f", "t", "p">>

\* urllib.parse.uses_relative and uses_netloc, cut to the schemes of the
\* model's URLs (both lists hold "", http, https and ftp; neither holds
\* mailto).
UsesRelative == {<<>>, SchHttp, SchHttps, SchFtp}
UsesNetloc   == {<<>>, SchHttp, SchHttps, SchFtp}

RECURSIVE Split(_, _)
\* str.split(sep) for a one-character separator.
Split(s, sep) ==
    LET i == Find(s, sep)
    IN  IF i = 0 THEN <<s>>
        ELSE <<SubSeq(s, 1, i - 1)>> \o Split(From(s, i + 1), sep)

RECURSIVE Join(_, _)
\* sep.join(parts)
Join(parts, sep) ==
    IF parts = <<>> THEN <<>>
    ELSE IF Len(parts) = 1 THEN parts[1]
    ELSE parts[1] \o <<sep>> \o Join(Tail(parts), sep)

\* urlunsplit: scheme + ":" + url when there is a scheme.
WithScheme(scheme, url) == IF scheme # <<>> THEN scheme \o <<":">> \o url ELSE url

\* urlunparse((scheme, netloc, path, '', '', ''))
urlunparse(scheme, netloc, path) ==
    IF netloc # <<>>
       \/ (scheme # <<>> /\ scheme \in UsesNetloc /\ SubSeq(path, 1, 2) # <<"/", "/">>)
    THEN WithScheme(scheme,
             <<"/", "/">> \o netloc
             \o (IF path # <<>> /\ path[1] # "/" THEN <<"/">> ELSE <<>>) \o path)
    ELSE WithScheme(scheme, path)

RECURSIVE ResolveSegments(_, _)
\* The loop of urljoin over the segments: ".." pops, "." is skipped.
ResolveSegments(segments, resolved) ==
    IF segments = <<>> THEN resolved
    ELSE LET seg == Head(segments)
         IN  ResolveSegments(Tail(segments),
                 IF seg = <<".", ".">>
                 THEN (IF resolved = <<>> THEN resolved
                       ELSE SubSeq(resolved, 1, Len(resolved) - 1))
                 ELSE IF seg = <<".">> THEN resolved
                 ELSE Append(resolved, seg))

\* segments[1:-1] = filter(None, segments[1:-1])
DropEmptyInner(segments) ==
    IF Len(segments) <= 2 THEN segments
    ELSE <<segments[1]>>
         \o SelectSeq(SubSeq(segments, 2, Len(segments) - 1), LAMBDA g : g # <<>>)
         \o <<segments[Len(segments)]>>

\* base_parts of urljoin, bsplit being bpath.split('/'): a last part that is
\* not a directory is dropped.
BaseParts(bsplit) ==
    IF bsplit[Len(bsplit)] # <<>> THEN SubSeq(bsplit, 1, Len(bsplit) - 1) ELSE bsplit

\* segments of urljoin
Segments(bpath, path) ==
    IF path[1] = "/" THEN Split(path, "/")
    ELSE DropEmptyInner(BaseParts(Split(bpath, "/")) \o Split(path, "/"))

\* resolved_path of urljoin: a last segment "." or ".." leaves a trailing "/".
ResolvedPath(segments) ==
    IF segments[Len(segments)] \in {<<".">>, <<".", ".">>}
    THEN Append(ResolveSegments(segments, <<>>), <<>>)
    ELSE ResolveSegments(segments, <<>>)

\* '/'.join(resolved_path) or '/'
OrRoot(joined) == IF joined = <<>> THEN <<"/">> ELSE joined

\* urljoin from "if scheme in uses_netloc" on: scheme is that of both.
JoinSameScheme(scheme, b, u) ==
    IF scheme \in UsesNetloc /\ u.netloc # <<>>
    THEN urlunparse(scheme, u.netloc, u.path)
    ELSE IF u.path = <<>>
    THEN urlunparse(scheme, IF scheme \in UsesNetloc THEN b.netloc ELSE u.netloc,
                    b.path)
    ELSE urlunparse(scheme, IF scheme \in UsesNetloc THEN b.netloc ELSE u.netloc,
                    OrRoot(Join(ResolvedPath(Segments(b.path, u.path)), "/")))

\* urljoin once both are parsed: urlparse(url, bscheme) gives url the scheme
\* of base when it has none.
JoinParsed(url, scheme, b, u) ==
    IF scheme # b.scheme \/ scheme \notin UsesRelative THEN url
    ELSE JoinSameScheme(scheme, b, u)

\* A ValueError of either urlparse propagates.
JoinOutcomes(url, b, u) ==
    IF b.raised \/ u.raised THEN Raised
    ELSE Ok(JoinParsed(url, IF u.val.scheme = <<>> THEN b.val.scheme ELSE u.val.scheme,
                       b.val, u.val))

\* urljoin(base, url)
urljoin(base, url) ==
    IF base = <<>> THEN Ok(url)
    ELSE IF url = <<>> THEN Ok(base)
    ELSE JoinOutcomes(url, urlparse(base), urlparse(url))

\* normalize_url(base_url, url)
normalize_url(base_url, url) ==
    IF is_valid_url(url) THEN Ok(url) ELSE urljoin(base_url, url)

---------------------------------------------------------------------------
(* The crawler and the document extractors.  What a server answers is an   *)
(* input: a response for a page fetch, an outcome for a document download. *)

ExtPdf  == <<".", "p", "d", "f">>
ExtTxt  == <<".", "t", "x", "t">>
ExtDoc  == <<".", "d", "o", "c">>
ExtDocx == <<".", "d", "o", "c", "x">>
ExtXls  == <<".", "x", "l", "s">>
ExtXlsx == <<".", "x", "l", "s", "x">>
ExtPpt  == <<".", "p", "p", "t">>
ExtPptx == <<".", "p", "p", "t", "x">>

\* The extensions crawl_page keeps as downloadable.
DocExtensions == {ExtPdf, ExtTxt, ExtDoc, ExtDocx, ExtXls, ExtXlsx, ExtPpt, ExtPptx}

HasDocExtension(link_lower) == \E ext \in DocExtensions : EndsWith(link_lower, ext)

\* any(link.lower().endswith(ext) for ext in [...])
IsDownloadable(link) == HasDocExtension(Lower(link) \o <<>>)

\* What crawl_page returns: (text, downloadables).
CrawlResult(text, links) == [raised |-> FALSE, text |-> text, links |-> links]
CrawlRaised == [raised |-> TRUE, text |-> <<>>, links |-> <<>>]

\* links and downloadables of crawl_page, full being the outcomes of
\* normalize_url for the hrefs in document order: an exception ends the loop;
\* a link is kept "if full_url and is_valid_url(full_url)", and is
\* downloadable by its extension.
LinksOf(text, full) ==
    IF \E k \in 1..Len(full) : full[k].raised THEN CrawlRaised
    ELSE CrawlResult(text,
             SelectSeq([k \in 1..Len(full) |-> full[k].val],
                       LAMBDA u : u # <<>> /\ is_valid_url(u) /\ IsDownloadable(u)))

\* The try block of crawl_page.  resp is the server's answer: kind is
\* "timeout" (requests.get raises), "status" (raise_for_status raises) or
\* "ok", with the declared content type, the text of the body and, for an
\* HTML body, the href of each <a href> in document order.
CrawlTry(url, resp) ==
    IF resp.kind # "ok" THEN CrawlRaised
    ELSE IF resp.ctype = "document" THEN CrawlResult(<<>>, <<url>>)
    ELSE IF resp.ctype = "text/plain" THEN CrawlResult(resp.text, <<>>)
    ELSE LinksOf(resp.text,
                 [k \in 1..Len(resp.hrefs) |-> normalize_url(url, resp.hrefs[k])] \o <<>>)

\* except Exception as e: return "", []
CrawlExcept(r) == IF r.raised THEN CrawlResult(<<>>, <<>>) ELSE r

\* crawl_page without its except clause.
crawl_page_no_except(url, resp) == CrawlTry(url, resp)

\* crawl_page(url), resp being the server's answer.
crawl_page(url, resp) == CrawlExcept(CrawlTry(url, resp))

\* What an extractor returns: its text, and the temporary files of the call
\* that are still on disk when it returns.
ExtractResult(text, left) == [raised |-> FALSE, text |-> text, left |-> left]
ExtractRaised(left) == [raised |-> TRUE, text |-> <<>>, left |-> left]

\* The outer try block of extract_pdf_text, extract_docx_text,
\* extract_xlsx_text and extract_pptx_text, which differ in the suffix and in
\* the parser.  o.fail names the first statement that raises:
\*   "get"     requests.get(url, stream=True, ...)
\*   "status"  r.raise_for_status()
\*   "body"    f.write(r.content): with stream=True the body is downloaded
\*             here, inside the with block that created the file
\*             (delete=False), before temp_path is assigned
\*   "open"    fitz.open / docx.Document / load_workbook / Presentation
\*   "loop"    the extraction loop
\*   "none"    nothing raises, and o.text is the text extracted.
\* The inner try catches "open" and "loop", unlinks temp_path and returns "".
TempFileTry(suffix, o) ==
    IF o.fail \in {"get", "status"} THEN ExtractRaised(<<>>)
    ELSE IF o.fail = "body" THEN ExtractRaised(<<suffix>>)
    ELSE IF o.fail \in {"open", "loop"} THEN ExtractResult(<<>>, <<>>)
    ELSE ExtractResult(o.text, <<>>)

\* An extractor without its outer except clause.
ExtractNoExcept(r) == r

\* except Exception as e: return ""
ExtractExcept(r) == IF r.raised THEN ExtractResult(<<>>, r.left) ELSE r

\* An extractor with a temporary file.
TempFileExtract(suffix, o) == ExtractExcept(TempFileTry(suffix, o))

extract_pdf_text(o)  == TempFileExtract(ExtPdf, o)
extract_docx_text(o) == TempFileExtract(ExtDocx, o)
extract_xlsx_text(o) == TempFileExtract(ExtXlsx, o)
extract_pptx_text(o) == TempFileExtract(ExtPptx, o)

\* extract_txt_text: requests.get without stream, raise_for_status, r.text.
extract_txt_text(o) ==
    IF o.fail \in {"get", "status"} THEN ExtractResult(<<>>, <<>>)
    ELSE ExtractResult(o.text, <<>>)

\* The branch of extract_document_text that url takes.
KindOf(url_lower) ==
    IF EndsWith(url_lower, ExtPdf) THEN "pdf"
    ELSE IF EndsWith(url_lower, ExtTxt) THEN "txt"
    ELSE IF EndsWith(url_lower, ExtDocx) THEN "docx"
    ELSE IF EndsWith(url_lower, ExtXlsx) THEN "xlsx"
    ELSE IF EndsWith(url_lower, ExtPptx) THEN "pptx"
    ELSE IF EndsWith(url_lower, ExtDoc) THEN "doc"
    ELSE IF EndsWith(url_lower, ExtXls) THEN "xls"
    ELSE IF EndsWith(url_lower, ExtPpt) THEN "ppt"
    ELSE "other"

DocumentKind(url) == KindOf(Lower(url) \o <<>>)

\* The branches that call an extractor, each of which issues one GET.
Downloads(url) == DocumentKind(url) \in {"pdf", "txt", "docx", "xlsx", "pptx"}

\* extract_document_text(url), o being the outcome of the download.
ExtractKind(kind, o) ==
    CASE kind = "pdf"  -> extract_pdf_text(o)
      [] kind = "txt"  -> extract_txt_text(o)
      [] kind = "docx" -> extract_docx_text(o)
      [] kind = "xlsx" -> extract_xlsx_text(o)
      [] kind = "pptx" -> extract_pptx_text(o)
      [] OTHER         -> ExtractResult(<<>>, <<>>)

extract_document_text(url, o) == ExtractKind(DocumentKind(url), o)

\* process_url without the slice.
NoTruncate(text) == text

\* cleaned_text[:10000]
Truncate(text) ==
    IF Len(text) <= ContentLimit THEN text ELSE SubSeq(text, 1, ContentLimit)

\* The end of process_url: combine, clean, truncate, wrap.
ContentRecord(url, text, docs) ==
    [url |-> url,
     content |-> Truncate(clean_text(
         IF docs # <<>> THEN text \o <<"\n">> \o Join(docs, "\n") ELSE text))]

\* results = [r for r in results if r["content"]]
NonEmpty(rs) == SelectSeq(rs, LAMBDA r : r.content # <<>>)

---------------------------------------------------------------------------
(* The inputs of the pipeline.                                             *)

\* The number of seed URLs google_search returned.
NSeeds == 2

Tasks == 1..NSeeds

Origin == <<"h", "t", "t", "p", "s", ":", "/", "/", "a", ".", "g", "o", "v">>

\* The seed URLs, distinct (main gets list(set(urls))): https://a.gov/1,
\* https://a.gov/2.pdf, https://a.gov/3, ...
SeedUrl(i) ==
    Origin \o <<"/", Digits[(i % 10) + 1]>> \o (IF i % 2 = 0 THEN ExtPdf ELSE <<>>)

Seeds == [i \in Tasks |-> SeedUrl(i)]

TextReport == <<"A", "n", "n", "u", "a", "l", " ", "R", "e", "p", "o", "r", "t">>
TextNone   == <<"N", "o", "n", "e">>
TextDoc    == <<"R", "e", "v", ":", "\n", "x", "@", "y", ".", "z">>

\* A text that is longer than ContentLimit after cleaning, too.
LongText ==
    [i \in 1..(ContentLimit + 11) |-> IF i % 3 = 0 THEN " " ELSE "a"] \o <<>>

HrefPdf    == <<"r", ".", "p", "d", "f">>
HrefPdfAbs == Origin \o <<"/">> \o HrefPdf
HrefDoc    == <<"o", ".", "d", "o", "c">>
HrefTxt    == <<"n", ".", "T", "X", "T">>
HrefAbout  == <<"a", "b", "o", "u", "t">>
HrefBad    == <<"/", "/", "[">>

\* The href lists of the model's HTML pages.
HrefLists ==
    { <<>>, <<HrefPdf>>, <<HrefPdf, HrefPdfAbs>>, <<HrefDoc, HrefTxt>>,
      <<HrefAbout, HrefBad>> }

PageResponse(kind, ctype, text, hrefs) ==
    [kind |-> kind, ctype |-> ctype, text |-> text, hrefs |-> hrefs]

\* What a server may answer to a page fetch.
PageResponses ==
    { PageResponse(k, "", <<>>, <<>>) : k \in {"timeout", "status"} }
    \cup { PageResponse("ok", "document", <<>>, <<>>) }
    \cup { PageResponse("ok", "text/plain", LongText, <<>>) }
    \cup { PageResponse("ok", "text/html", t, h) :
             t \in {TextReport, TextNone}, h \in HrefLists }

\* How a document download may go.
DocOutcomes ==
    { [fail |-> f, text |-> <<>>] : f \in {"get", "status", "body", "open", "loop", "none"} }
    \cup { [fail |-> "none", text |-> TextDoc] }

\* r.text needs no second download and no parser.
OutcomesFor(url) ==
    IF DocumentKind(url) = "txt"
    THEN { o \in DocOutcomes : o.fail \in {"get", "status", "none"} }
    ELSE DocOutcomes

NoRecord  == [url |-> <<>>, content |-> <<>>]
NoExtract == [failed |-> FALSE, text |-> <<>>, left |-> <<>>]

---------------------------------------------------------------------------
(* main and its tasks.  asyncio.gather wraps each coroutine in a task; the *)
(* event loop runs one task at a time and takes the next from its queue    *)
(* only when the running one awaits something that suspends, or ends.      *)
(* requests.get is a blocking call, and process_url awaits only the        *)
(* coroutine extract_document_text, which awaits nothing: a task that has  *)
(* started keeps the loop until process_url returns.                       *)

CleanIdle == cl_pc = "off" /\ cl_in = <<>> /\ cl_out = <<>> /\ cl_out2 = <<>>
UrlIdle   == u_pc = "off" /\ u_base = <<>> /\ u_cand = <<>> /\ u_res = Ok(<<>>)

PipeInit ==
    /\ mainpc = "start"
    /\ ready = <<>>
    /\ current = 0
    /\ pc = [i \in Tasks |-> "pending"]
    /\ page_text = [i \in Tasks |-> <<>>]
    /\ downloadables = [i \in Tasks |-> <<>>]
    /\ queue = [i \in Tasks |-> <<>>]
    /\ document_texts = [i \in Tasks |-> <<>>]
    /\ results = [i \in Tasks |-> NoRecord]
    /\ returned = <<>>
    /\ output_file = <<>>
    /\ gets = [i \in Tasks |-> <<>>]
    /\ fetch_failed = [i \in Tasks |-> FALSE]
    /\ tmpdir = <<>>
    /\ last_extract = NoExtract

Init == PipeInit /\ CleanIdle /\ UrlIdle

\* tasks = [process_url(url) for url in urls]; asyncio.gather(*tasks)
MainGather ==
    /\ mainpc = "start"
    /\ mainpc' = "gather"
    /\ ready' = [i \in Tasks |-> i]
    /\ UNCHANGED <<current, pc, page_text, downloadables, queue, document_texts,
                   results, returned, output_file, gets, fetch_failed, tmpdir,
                   last_extract>>
    /\ UNCHANGED <<cleanVars, urlVars>>

\* The event loop starts the next task: process_url calls crawl_page, which
\* issues the GET of the seed URL.
TaskStart ==
    /\ mainpc = "gather"
    /\ current = 0
    /\ ready # <<>>
    /\ LET i == Head(ready)
       IN  /\ current' = i
           /\ ready' = Tail(ready)
           /\ pc' = [pc EXCEPT ![i] = "fetching"]
           /\ gets' = [gets EXCEPT ![i] = Append(@, Seeds[i])]
    /\ UNCHANGED <<mainpc, page_text, downloadables, queue, document_texts,
                   results, returned, output_file, fetch_failed, tmpdir,
                   last_extract>>
    /\ UNCHANGED <<cleanVars, urlVars>>

\* The result of task i, which ends.
TaskEnds(i, status, record) ==
    /\ pc' = [pc EXCEPT ![i] = status]
    /\ results' = [results EXCEPT ![i] = record]
    /\ current' = 0
    /\ page_text' = [page_text EXCEPT ![i] = <<>>]
    /\ downloadables' = [downloadables EXCEPT ![i] = <<>>]
    /\ queue' = [queue EXCEPT ![i] = <<>>]
    /\ document_texts' = [document_texts EXCEPT ![i] = <<>>]

\* page_text, downloadables = crawl_page(url), r being what crawl_page
\* does: an exception would end the task.
Crawled(i, r) ==
    IF r.raised
    THEN TaskEnds(i, "raised", NoRecord)
    ELSE /\ page_text' = [page_text EXCEPT ![i] = r.text]
         /\ downloadables' = [downloadables EXCEPT ![i] = r.links]
         /\ queue' = [queue EXCEPT ![i] = r.links]
         /\ pc' = [pc EXCEPT ![i] = "loop"]
         /\ UNCHANGED <<current, document_texts, results>>

\* requests.get returns or raises, and crawl_page runs to its return.
CrawlReturn ==
    /\ current # 0
    /\ pc[current] = "fetching"
    /\ \E resp \in PageResponses :
         /\ fetch_failed' = [fetch_failed EXCEPT ![current] = resp.kind # "ok"]
         /\ Crawled(current, crawl_page(Seeds[current], resp))
    /\ UNCHANGED <<mainpc, ready, returned, output_file, gets, tmpdir, last_extract>>
    /\ UNCHANGED <<cleanVars, urlVars>>

\* for doc_url in downloadables: extract_document_text(doc_url) up to the GET
\* of its extractor, or to its return when the branch has none.
Dispatch ==
    /\ current # 0
    /\ pc[current] = "loop"
    /\ queue[current] # <<>>
    /\ LET i == current
           doc_url == Head(queue[i])
       IN  IF Downloads(doc_url)
           THEN /\ gets' = [gets EXCEPT ![i] = Append(@, doc_url)]
                /\ pc' = [pc EXCEPT ![i] = "downloading"]
                /\ UNCHANGED queue
           ELSE /\ queue' = [queue EXCEPT ![i] = Tail(@)]
                /\ UNCHANGED <<gets, pc>>
    /\ UNCHANGED <<mainpc, ready, current, page_text, downloadables,
                   document_texts, results, returned, output_file, fetch_failed,
                   tmpdir, last_extract>>
    /\ UNCHANGED <<cleanVars, urlVars>>

\* doc_text = await extract_document_text(doc_url), r being what the
\* extractor does; if doc_text: document_texts.append(doc_text).
Extracted(i, failed, r) ==
    /\ tmpdir' = tmpdir \o r.left
    /\ last_extract' = [failed |-> failed, text |-> r.text, left |-> r.left]
    /\ IF r.raised
       THEN TaskEnds(i, "raised", NoRecord)
       ELSE /\ document_texts' = [document_texts EXCEPT ![i] =
                   IF r.text # <<>> THEN Append(@, r.text) ELSE @]
            /\ queue' = [queue EXCEPT ![i] = Tail(@)]
            /\ pc' = [pc EXCEPT ![i] = "loop"]
            /\ UNCHANGED <<current, page_text, downloadables, results>>

\* The download returns or raises, and the extractor runs to its return.
ExtractReturn ==
    /\ current # 0
    /\ pc[current] = "downloading"
    /\ \E o \in OutcomesFor(Head(queue[current])) :
         Extracted(current, o.fail # "none",
                   extract_document_text(Head(queue[current]), o))
    /\ UNCHANGED <<mainpc, ready, returned, output_file, gets, fetch_failed>>
    /\ UNCHANGED <<cleanVars, urlVars>>

\* The loop is over: process_url returns its record.
Finish ==
    /\ current # 0
    /\ pc[current] = "loop"
    /\ queue[current] = <<>>
    /\ LET i == current
       IN  TaskEnds(i, "done",
                    ContentRecord(Seeds[i], page_text[i], document_texts[i]))
    /\ last_extract' = NoExtract
    /\ UNCHANGED <<mainpc, ready, returned, output_file, gets, fetch_failed, tmpdir>>
    /\ UNCHANGED <<cleanVars, urlVars>>

\* Results in the reverse of the order of the awaitables.
GatherReversed == [i \in Tasks |-> results[NSeeds + 1 - i]]

\* What gather hands back: the tasks' results in the order of the awaitables.
GatherResults == [i \in Tasks |-> results[i]]

\* gather returns once every task has ended, and raises the exception of a
\* task that raised; then the empty records are dropped, and the rest is
\* saved and returned.
MainCollect ==
    /\ mainpc = "gather"
    /\ \A i \in Tasks : pc[i] \in {"done", "raised"}
    /\ IF \E i \in Tasks : pc[i] = "raised"
       THEN /\ mainpc' = "aborted"
            /\ UNCHANGED <<returned, output_file>>
       ELSE /\ mainpc' = "done"
            /\ returned' = NonEmpty(GatherResults)
            /\ output_file' = NonEmpty(GatherResults)
    /\ UNCHANGED <<ready, current, pc, page_text, downloadables, queue,
                   document_texts, results, gets, fetch_failed, tmpdir,
                   last_extract>>
    /\ UNCHANGED <<cleanVars, urlVars>>

Next ==
    \/ MainGather
    \/ TaskStart
    \/ CrawlReturn
    \/ Dispatch
    \/ ExtractReturn
    \/ Finish
    \/ MainCollect

Spec == Init /\ [][Next]_vars

---------------------------------------------------------------------------
(* The normalizer on its own: clean_text applied to a raw text, and then   *)
(* to its own output.                                                      *)

\* The most pieces a raw text is made of.
MaxPieces == 4

\* n copies of the character c.
Rep(c, n) == [i \in 1..n |-> c]

\* The pieces raw texts are built from: a word, a blank, the two halves of
\* "http://", the stray "None", the middle of an email address, and a token
\* of LongWord characters followed by a blank.
Pieces ==
    { <<"x">>, <<" ">>, <<"h", "t">>, <<"t", "p", ":", "/", "/">>, LitNone,
      <<"@", "y", ".">>, Rep("g", LongWord) \o <<" ">> }

RECURSIVE Flatten(_)
Flatten(ps) == IF ps = <<>> THEN <<>> ELSE Head(ps) \o Flatten(Tail(ps))

RawTexts ==
    { Flatten(ps) : ps \in UNION { [1..n -> Pieces] : n \in 0..MaxPieces } }

CleanInit ==
    /\ cl_pc = "in"
    /\ cl_in \in RawTexts
    /\ cl_out = <<>>
    /\ cl_out2 = <<>>
    /\ PipeInit
    /\ UrlIdle

\* cleaned_text = clean_text(combined_text)
CleanOnce ==
    /\ cl_pc = "in"
    /\ cl_out' = clean_text(cl_in)
    /\ cl_pc' = "once"
    /\ UNCHANGED <<cl_in, cl_out2>>
    /\ UNCHANGED <<pipeVars, urlVars>>

\* normalize applied to its own output
CleanTwice ==
    /\ cl_pc = "once"
    /\ cl_out2' = clean_text(cl_out)
    /\ cl_pc' = "twice"
    /\ UNCHANGED <<cl_in, cl_out>>
    /\ UNCHANGED <<pipeVars, urlVars>>

CleanNext == CleanOnce \/ CleanTwice

SpecClean == CleanInit /\ [][CleanNext]_vars

---------------------------------------------------------------------------
(* The URL resolver on its own: normalize_url applied to the URL of a page *)
(* and an href.                                                            *)

\* The most pieces an href is made of.
MaxUrlPieces == 3

BaseUrls == { Origin \o <<"/", "1">>,
              <<"h", "t", "t", "p", ":", "/", "/", "a", ".", "g", "o", "v", "/",
                "d", "/", "2", ".", "p", "d", "f">> }

UrlPieces ==
    { <<"h", "t", "t", "p", "s", ":">>, <<"m", "a", "i", "l", "t", "o", ":">>,
      <<"/", "/">>, <<"/">>, <<"b", ".", "o", "r", "g">>, HrefPdf,
      <<".", ".">> }

Hrefs ==
    { Flatten(ps) : ps \in UNION { [1..n -> UrlPieces] : n \in 0..MaxUrlPieces } }

UrlInit ==
    /\ u_pc = "in"
    /\ u_base \in BaseUrls
    /\ u_cand \in Hrefs
    /\ u_res = Ok(<<>>)
    /\ PipeInit
    /\ CleanIdle

\* full_url = normalize_url(url, href)
Resolve ==
    /\ u_pc = "in"
    /\ u_res' = normalize_url(u_base, u_cand)
    /\ u_pc' = "done"
    /\ UNCHANGED <<u_base, u_cand>>
    /\ UNCHANGED <<pipeVars, cleanVars>>

UrlNext == Resolve

SpecUrl == UrlInit /\ [][UrlNext]_vars

---------------------------------------------------------------------------
(* The claims about the pipeline, checked under Spec.                      *)

\* Some record of rs has the URL url.
HasUrl(rs, url) == \E k \in 1..Len(rs) : rs[k].url = url

\* The position of url among the seed URLs, 0 when it is none of them.
SeedIndex(url) ==
    IF \E i \in Tasks : Seeds[i] = url THEN CHOOSE i \in Tasks : Seeds[i] = url ELSE 0

(* C1: isolation between seed URLs: the run is never aborted, and when main *)
(* has returned, a seed whose page fetch failed has no record in the       *)
(* corpus, while every seed whose own pipeline yielded non-empty content   *)
(* has its record there.                                                   *)
SeedIsolation ==
    /\ mainpc # "aborted"
    /\ mainpc = "done" =>
         \A i \in Tasks :
           /\ fetch_failed[i] => ~HasUrl(returned, Seeds[i])
           /\ results[i].content # <<>> =>
                \E k \in 1..Len(returned) : returned[k] = results[i]

\* main has returned; one seed's fetch failed and another seed is in the corpus.
SeedIsolationWitness ==
    /\ mainpc = "done"
    /\ \E i, j \in Tasks :
         /\ fetch_failed[i]
         /\ ~fetch_failed[j]
         /\ HasUrl(returned, Seeds[j])

(* C2: every record of the corpus main returns, and of the one it saves,   *)
(* has content that is non-empty and at most ContentLimit characters long.  *)
CorpusInvariant ==
    mainpc = "done" =>
      /\ output_file = returned
      /\ \A k \in 1..Len(returned) :
           /\ returned[k].content # <<>>
           /\ Len(returned[k].content) <= ContentLimit

\* main has returned a record cut to ContentLimit characters, and dropped
\* the record of a seed whose text normalized to the empty string.
CorpusInvariantWitness ==
    /\ mainpc = "done"
    /\ \E k \in 1..Len(returned) : Len(returned[k].content) = ContentLimit
    /\ \E i \in Tasks :
         /\ ~fetch_failed[i]
         /\ results[i].content = <<>>
         /\ ~HasUrl(returned, Seeds[i])

(* C3: when an extractor call has returned, no temporary file that the     *)
(* call created is still on disk.                                          *)
TempFilesRemoved == last_extract.left = <<>> /\ tmpdir = <<>>

(* C4: fail-soft crawler and extractors: no task ever ends with an         *)
(* exception; after a failed page fetch crawl_page has returned empty text *)
(* and no document links; an extractor whose download or parse failed has  *)
(* returned the empty string; and a task that is done has a record for its *)
(* URL.                                                                    *)
FailSoft ==
    /\ \A i \in Tasks : pc[i] # "raised"
    /\ \A i \in Tasks :
         fetch_failed[i] /\ pc[i] \in {"loop", "downloading"} =>
           page_text[i] = <<>> /\ downloadables[i] = <<>>
    /\ last_extract.failed => last_extract.text = <<>>
    /\ \A i \in Tasks : pc[i] = "done" => results[i].url = Seeds[i]

\* An extractor call has just failed, in a run where a task whose page
\* fetch failed is done.
FailSoftWitness ==
    /\ last_extract.failed
    /\ \E i \in Tasks : pc[i] = "done" /\ fetch_failed[i]

(* C5: stable output order: the corpus main returns is the sequence of the *)
(* per-seed records in the order of the seed URLs with exactly the records *)
(* of empty content removed, each record under the URL of its seed.        *)
StableOrder ==
    mainpc = "done" =>
      /\ \A k \in 1..Len(returned) :
           /\ SeedIndex(returned[k].url) # 0
           /\ returned[k] = results[SeedIndex(returned[k].url)]
      /\ \A k, l \in 1..Len(returned) :
           k < l => SeedIndex(returned[k].url) < SeedIndex(returned[l].url)
      /\ \A i \in Tasks :
           /\ results[i].url = Seeds[i]
           /\ HasUrl(returned, Seeds[i]) <=> results[i].content # <<>>

\* main has returned a corpus of two records or more.
StableOrderWitness == mainpc = "done" /\ Len(returned) >= 2

(* C9: per-URL pipelines progress independently: while a task waits on a   *)
(* network call (its page fetch or a document download), the next task of  *)
(* the queue can start.                                                    *)
NetworkWaitYields ==
    /\ \E i \in Tasks : pc[i] \in {"fetching", "downloading"}
    /\ ready # <<>>
    => ENABLED TaskStart

(* C10: no retry, no repeat: within the pipeline of one seed no URL        *)
(* receives a second GET, and the seed URL has received its GET once the   *)
(* task has started.                                                       *)
OneGetPerUrl ==
    \A i \in Tasks :
      /\ \A k, l \in 1..Len(gets[i]) : k # l => gets[i][k] # gets[i][l]
      /\ pc[i] # "pending" => \E k \in 1..Len(gets[i]) : gets[i][k] = Seeds[i]

(* C11: the document_links crawl_page has returned hold no URL twice, and  *)
(* every entry is a valid absolute URL that ends in a recognized document  *)
(* extension (or is the page's own URL, returned for a direct file).       *)
DocumentLinksDistinct ==
    \A i \in Tasks :
      /\ \A k, l \in 1..Len(downloadables[i]) :
           k # l => downloadables[i][k] # downloadables[i][l]
      /\ \A k \in 1..Len(downloadables[i]) :
           /\ is_valid_url(downloadables[i][k])
           /\ IsDownloadable(downloadables[i][k]) \/ downloadables[i][k] = Seeds[i]

---------------------------------------------------------------------------
(* The claim about the URL resolver, checked under SpecUrl.                *)

\* url parses with a scheme and a network location.
HasSchemeAndHost(url) ==
    /\ ~urlparse(url).raised
    /\ urlparse(url).val.scheme # <<>>
    /\ urlparse(url).val.netloc # <<>>

\* a and b parse with the same scheme and the same network location.
SameOrigin(a, b) ==
    /\ ~urlparse(a).raised
    /\ ~urlparse(b).raised
    /\ urlparse(a).val.scheme = urlparse(b).val.scheme
    /\ urlparse(a).val.netloc = urlparse(b).val.netloc

\* url has no network location, and no scheme or that of base.
RelativeTo(url, base) ==
    /\ ~urlparse(url).raised
    /\ urlparse(url).val.netloc = <<>>
    /\ urlparse(url).val.scheme \in {<<>>, urlparse(base).val.scheme}

(* C8, as stated: normalize_url returns a valid candidate unchanged, and   *)
(* for any other candidate a URL whose scheme and host are those of base.  *)
ResolveKeepsOrigin ==
    u_pc = "done" =>
      IF HasSchemeAndHost(u_cand) THEN u_res = Ok(u_cand)
      ELSE ~u_res.raised /\ SameOrigin(u_res.val, u_base)

(* C8, amended: normalize_url returns a valid candidate unchanged; for a   *)
(* candidate that is not valid the result has the scheme and host of base  *)
(* when the candidate has no network location and no scheme other than     *)
(* that of base.                                                           *)
ResolveRelativeKeepsOrigin ==
    u_pc = "done" =>
      /\ HasSchemeAndHost(u_cand) => u_res = Ok(u_cand)
      /\ ~HasSchemeAndHost(u_cand) /\ RelativeTo(u_cand, u_base) =>
           ~u_res.raised /\ SameOrigin(u_res.val, u_base)

\* A relative candidate has been resolved against base.
ResolveWitness ==
    /\ u_pc = "done"
    /\ u_cand # <<>>
    /\ ~HasSchemeAndHost(u_cand)
    /\ RelativeTo(u_cand, u_base)
    /\ u_res.val # u_cand
    /\ SameOrigin(u_res.val, u_base)

---------------------------------------------------------------------------
(* The claims about the normalizer, checked under SpecClean.               *)

(* C6: clean_text is idempotent: cleaning the output of clean_text again   *)
(* leaves it unchanged, for every raw text.                                *)
CleanIdempotent == cl_pc = "twice" => cl_out2 = cl_out

(* C7: the output of clean_text holds no substring that matches the email  *)
(* pattern and none that matches the URL pattern.                          *)
CleanNoUrlNoEmail ==
    cl_pc \in {"once", "twice"} =>
        ~Contains("url", cl_out) /\ ~Contains("email", cl_out)

=============================================================================
